---- MODULE Spec2Model ----
(***************************************************************************)
(* Model of catkin_tools/verbs/catkin_build/context.py: the Context class  *)
(* (constructor, the thirteen property setters, summary()).                *)
(*                                                                         *)
(* A Python str is a sequence of one-character strings, so that            *)
(* os.path.join, os.path.abspath, os.path.exists, str.join, str.format and *)
(* len are computed character by character as the library computes them.   *)
(***************************************************************************)
EXTENDS Integers, Sequences, FiniteSets, TLC

(* ------------------------------ bounds --------------------------------- *)

\* Number of calls (assignments, summary()) made on one constructed Context.
MaxOps == 1

(* --------------------------- string literals --------------------------- *)

Sep == "/"
Dot == <<".">>
DotDot == <<".", ".">>
S_src == <<"s","r","c">>
S_build == <<"b","u","i","l","d">>
S_devel == <<"d","e","v","e","l">>
S_install == <<"i","n","s","t","a","l","l">>
S_None == <<"N","o","n","e">>
S_True == <<"T","r","u","e">>
S_False == <<"F","a","l","s","e">>
S_CommaSpace == <<",", " ">>
S_Newline == <<"\n">>

(* ------------------------------ os.path -------------------------------- *)

StartsWith(s, c) == Len(s) > 0 /\ s[1] = c
EndsWith(s, c) == Len(s) > 0 /\ s[Len(s)] = c

\* posixpath.isabs
IsAbs(s) == StartsWith(s, Sep)

\* posixpath.join(a, b)
Join(a, b) ==
  IF StartsWith(b, Sep) THEN b
  ELSE IF a = <<>> \/ EndsWith(a, Sep) THEN a \o b
  ELSE a \o <<Sep>> \o b

\* str.split(sep) for a one-character separator: the pieces between
\* consecutive occurrences of sep
Split(s, sep) ==
  LET at == {i \in 1..Len(s) : s[i] = sep}
      n == Cardinality(at)
      pos(k) == IF k = 0 THEN 0
                ELSE IF k = n + 1 THEN Len(s) + 1
                ELSE CHOOSE i \in at : Cardinality({j \in at : j <= i}) = k
  IN [k \in 1..(n + 1) |-> SubSeq(s, pos(k - 1) + 1, pos(k) - 1)]

\* sep.join(items)
RECURSIVE StrJoin(_, _)
StrJoin(sep, items) ==
  IF items = <<>> THEN <<>>
  ELSE IF Len(items) = 1 THEN items[1]
  ELSE items[1] \o sep \o StrJoin(sep, Tail(items))

\* the component loop of posixpath.normpath
RECURSIVE NormComps(_, _, _, _)
NormComps(comps, i, initial, new) ==
  IF i > Len(comps) THEN new
  ELSE LET comp == comps[i] IN
    IF comp = <<>> \/ comp = Dot THEN NormComps(comps, i + 1, initial, new)
    ELSE IF comp # DotDot
            \/ (initial = 0 /\ new = <<>>)
            \/ (new # <<>> /\ new[Len(new)] = DotDot)
      THEN NormComps(comps, i + 1, initial, Append(new, comp))
    ELSE IF new # <<>>
      THEN NormComps(comps, i + 1, initial, SubSeq(new, 1, Len(new) - 1))
    ELSE NormComps(comps, i + 1, initial, new)

\* posixpath.normpath
Normpath(path) ==
  IF path = <<>> THEN Dot
  ELSE
    LET initial == IF ~StartsWith(path, Sep) THEN 0
                   ELSE IF Len(path) >= 2 /\ path[2] = Sep
                           /\ ~(Len(path) >= 3 /\ path[3] = Sep) THEN 2
                   ELSE 1
        comps == NormComps(Split(path, Sep), 1, initial, <<>>)
        body == StrJoin(<<Sep>>, comps)
        res == [k \in 1..initial |-> Sep] \o body
    IN IF res = <<>> THEN Dot ELSE res

\* os.getcwd(): the working directory of the process
Cwd == <<"/", "w">>

\* posixpath.abspath
Abspath(path) == Normpath(IF IsAbs(path) THEN path ELSE Join(Cwd, path))

\* Path resolution as os.stat does it on a disk of directories without
\* symbolic links: every named component must exist in turn.
RECURSIVE Walk(_, _, _, _)
Walk(disk, comps, i, cur) ==
  IF i > Len(comps) THEN TRUE
  ELSE LET comp == comps[i] IN
    IF comp = <<>> \/ comp = Dot THEN Walk(disk, comps, i + 1, cur)
    ELSE IF comp = DotDot THEN Walk(disk, comps, i + 1, Normpath(Join(cur, DotDot)))
    ELSE Join(cur, comp) \in disk /\ Walk(disk, comps, i + 1, Join(cur, comp))

\* os.path.exists
Exists(disk, path) ==
  /\ path # <<>>
  /\ Walk(disk, Split(path, Sep), 1, IF IsAbs(path) THEN <<Sep>> ELSE Cwd)

(* --------------------------- input values ------------------------------- *)

\* An optional value: Python None, or a value.
None == [isNone |-> TRUE, v |-> <<>>]
Some(x) == [isNone |-> FALSE, v |-> x]
Opt(S) == {None} \cup {Some(x) : x \in S}

P_root == <<"/">>
P_o == <<"/","o">>
P_up_o == <<".",".","/","o">>
P_nope == <<"n","o","p","e">>
P_source_packages == <<"s","o","u","r","c","e"," ","p","a","c","k","a","g","e","s">>
P_o_src == <<"/","o","/","s","r","c">>
P_bld == <<"b","l","d">>
P_w_build == <<"/","w","/","b","u","i","l","d">>
P_d == <<"/","d">>
S_with_a_space == <<"_","w","i","t","h"," ","a"," ","s","p","a","c","e">>
A_j4 == <<"-","j","4">>
A_k == <<"-","k">>

\* Two disks: the directories that exist.  Directory /o has a source space
\* on DiskB only; the build space of /w exists on DiskB only.
DiskA == {P_root, Cwd, Join(Cwd, S_src), Join(Cwd, P_source_packages), P_o}
DiskB == DiskA \cup {P_o_src, P_w_build}
Disks == {DiskA, DiskB}

WorkspaceValues == {Dot, P_up_o, P_nope}
SourceValues == {S_src, P_source_packages, P_o_src}
SpaceValues == {P_bld, P_w_build}
SuffixValues == {S_with_a_space}
DestdirValues == Opt({P_d})
ArgsValues == {<<>>, <<A_k, A_j4>>}
PackagesValues == {<<>>, <<S_src>>}

\* The keyword arguments of Context.__init__ that are not paths.
DefaultOptions ==
  [isolate_devel |-> FALSE, install |-> FALSE, isolate_install |-> FALSE,
   cmake_args |-> None, make_args |-> None, catkin_make_args |-> None]
CustomOptions ==
  [isolate_devel |-> TRUE, install |-> TRUE, isolate_install |-> FALSE,
   cmake_args |-> Some(<<A_k, A_j4>>), make_args |-> Some(<<A_j4>>),
   catkin_make_args |-> Some(<<>>)]

InitArgs ==
  [workspace : Opt(WorkspaceValues), source_space : Opt({P_source_packages, P_o_src}),
   build_space : Opt({P_bld}), devel_space : Opt({P_bld}),
   install_space : Opt({P_w_build}), space_suffix : Opt(SuffixValues),
   options : {DefaultOptions, CustomOptions}]

(* ------------------------------- state --------------------------------- *)

VARIABLES
  fs,       \* the set of directories that exist on disk
  environ,  \* os.environ: the value of DESTDIR, or None
  obj,      \* "none": no Context constructed yet, "live": one exists
  ctx,      \* the members of the Context (its __dict__)
  last,     \* the last operation called and the exception it raised
  arg,      \* the argument of the last operation
  out,      \* the string returned by the last summary() call
  nops      \* number of calls made on the Context

vars == <<fs, environ, obj, ctx, last, arg, out, nops>>

\* The members before __init__ has assigned them.
Blank ==
  [locked |-> FALSE, workspace |-> <<>>, source_space |-> <<>>,
   build_space |-> <<>>, devel_space |-> <<>>, install_space |-> <<>>,
   destdir |-> None, isolate_devel |-> FALSE, install |-> FALSE,
   isolate_install |-> FALSE, cmake_args |-> <<>>, make_args |-> <<>>,
   catkin_make_args |-> <<>>, packages |-> <<>>]

Members == DOMAIN Blank \ {"locked"}

\* What a setter does: the members and the disk it leaves, the exception it
\* raises ("none" when it returns normally).
Ok(c, disk) == [ctx |-> c, fs |-> disk, exc |-> "none"]
Raise(c, disk, e) == [ctx |-> c, fs |-> disk, exc |-> e]

(* --------------------------- property setters -------------------------- *)

\* workspace setter that validates the path before it looks at the lock
workspace_setter_validates_first(disk, c, value) ==
  IF ~Exists(disk, value) THEN Raise(c, disk, "ValueError")
  ELSE IF c.locked THEN Raise(c, disk, "RuntimeError")
  ELSE Ok([c EXCEPT !.workspace = Abspath(value)], disk)

\* workspace setter that derives the source space anew
workspace_setter_rederives(disk, c, value) ==
  IF c.locked THEN Raise(c, disk, "RuntimeError")
  ELSE IF ~Exists(disk, value) THEN Raise(c, disk, "ValueError")
  ELSE Ok([c EXCEPT !.workspace = Abspath(value),
                    !.source_space = Join(Abspath(value), S_src)], disk)

workspace_setter(disk, c, value) ==
  IF c.locked THEN Raise(c, disk, "RuntimeError")
  ELSE IF ~Exists(disk, value) THEN Raise(c, disk, "ValueError")
  ELSE Ok([c EXCEPT !.workspace = Abspath(value)], disk)

\* source_space setter that stores the path before it validates it
source_space_setter_assigns_first(disk, c, value) ==
  IF c.locked THEN Raise(c, disk, "RuntimeError")
  ELSE IF ~Exists(disk, value)
    THEN Raise([c EXCEPT !.source_space = Abspath(value)], disk, "ValueError")
  ELSE Ok([c EXCEPT !.source_space = Abspath(value)], disk)

\* source_space setter without the existence check
source_space_setter_unchecked(disk, c, value) ==
  IF c.locked THEN Raise(c, disk, "RuntimeError")
  ELSE Ok([c EXCEPT !.source_space = Abspath(value)], disk)

\* source_space setter that stores the path as given
source_space_setter_verbatim(disk, c, value) ==
  IF c.locked THEN Raise(c, disk, "RuntimeError")
  ELSE IF ~Exists(disk, value) THEN Raise(c, disk, "ValueError")
  ELSE Ok([c EXCEPT !.source_space = value], disk)

source_space_setter(disk, c, value) ==
  IF c.locked THEN Raise(c, disk, "RuntimeError")
  ELSE IF ~Exists(disk, value) THEN Raise(c, disk, "ValueError")
  ELSE Ok([c EXCEPT !.source_space = Abspath(value)], disk)

\* build_space setter that creates the directory
build_space_setter_makedirs(disk, c, value) ==
  IF c.locked THEN Raise(c, disk, "RuntimeError")
  ELSE Ok([c EXCEPT !.build_space = value], disk \cup {Abspath(value)})

build_space_setter(disk, c, value) ==
  IF c.locked THEN Raise(c, disk, "RuntimeError")
  ELSE Ok([c EXCEPT !.build_space = value], disk)

devel_space_setter(disk, c, value) ==
  IF c.locked THEN Raise(c, disk, "RuntimeError")
  ELSE Ok([c EXCEPT !.devel_space = value], disk)

install_space_setter(disk, c, value) ==
  IF c.locked THEN Raise(c, disk, "RuntimeError")
  ELSE Ok([c EXCEPT !.install_space = value], disk)

destdir_setter(disk, c, value) ==
  IF c.locked THEN Raise(c, disk, "RuntimeError")
  ELSE Ok([c EXCEPT !.destdir = value], disk)

isolate_devel_setter(disk, c, value) ==
  IF c.locked THEN Raise(c, disk, "RuntimeError")
  ELSE Ok([c EXCEPT !.isolate_devel = value], disk)

install_setter(disk, c, value) ==
  IF c.locked THEN Raise(c, disk, "RuntimeError")
  ELSE Ok([c EXCEPT !.install = value], disk)

isolate_install_setter(disk, c, value) ==
  IF c.locked THEN Raise(c, disk, "RuntimeError")
  ELSE Ok([c EXCEPT !.isolate_install = value], disk)

cmake_args_setter(disk, c, value) ==
  IF c.locked THEN Raise(c, disk, "RuntimeError")
  ELSE Ok([c EXCEPT !.cmake_args = value], disk)

make_args_setter(disk, c, value) ==
  IF c.locked THEN Raise(c, disk, "RuntimeError")
  ELSE Ok([c EXCEPT !.make_args = value], disk)

catkin_make_args_setter(disk, c, value) ==
  IF c.locked THEN Raise(c, disk, "RuntimeError")
  ELSE Ok([c EXCEPT !.catkin_make_args = value], disk)

packages_setter(disk, c, value) ==
  IF c.locked THEN Raise(c, disk, "RuntimeError")
  ELSE Ok([c EXCEPT !.packages = value], disk)

(* ------------------------------ __init__ ------------------------------- *)

\* The one element of a singleton set.  __init__ is a sequence of
\* assignments; {next(x) : x \in {r}} binds x to the outcome r of the
\* assignments so far and yields the outcome of the next one.
Only(S) == CHOOSE y \in S : TRUE

\* An assignment that has raised ends __init__.
Raised(x) == x.exc # "none"

\* x or []
OrEmpty(o) == IF o.isNone \/ o.v = <<>> THEN <<>> ELSE o.v

\* The defaults of the spaces that are not given.
default_source_space(c) == Join(c.workspace, S_src)
\* build space default that forgets the suffix
default_build_space_without_suffix(c, ss) == Join(c.workspace, S_build)
default_build_space(c, ss) == Join(c.workspace, S_build \o ss)
\* devel space default that cuts the suffix at the first blank
default_devel_space_first_word(c, ss) ==
  Join(c.workspace, S_devel \o Split(ss, " ")[1])
default_devel_space(c, ss) == Join(c.workspace, S_devel \o ss)
default_install_space(c, ss) == Join(c.workspace, S_install \o ss)

Context_init(disk, env, a) ==
  LET ss == IF a.space_suffix.isNone THEN <<>> ELSE a.space_suffix.v
      o == a.options
      r1 == workspace_setter(disk, Blank, IF a.workspace.isNone THEN Dot ELSE a.workspace.v)
      r2 == Only({IF Raised(x) THEN x ELSE source_space_setter(x.fs, x.ctx,
                    IF a.source_space.isNone THEN default_source_space(x.ctx)
                    ELSE a.source_space.v) : x \in {r1}})
      r3 == Only({IF Raised(x) THEN x ELSE build_space_setter(x.fs, x.ctx,
                    IF a.build_space.isNone THEN default_build_space(x.ctx, ss)
                    ELSE a.build_space.v) : x \in {r2}})
      r4 == Only({IF Raised(x) THEN x ELSE devel_space_setter(x.fs, x.ctx,
                    IF a.devel_space.isNone THEN default_devel_space(x.ctx, ss)
                    ELSE a.devel_space.v) : x \in {r3}})
      r5 == Only({IF Raised(x) THEN x ELSE install_space_setter(x.fs, x.ctx,
                    IF a.install_space.isNone THEN default_install_space(x.ctx, ss)
                    ELSE a.install_space.v) : x \in {r4}})
      r6 == Only({IF Raised(x) THEN x ELSE destdir_setter(x.fs, x.ctx, env) : x \in {r5}})
      r7 == Only({IF Raised(x) THEN x
                  ELSE isolate_devel_setter(x.fs, x.ctx, o.isolate_devel) : x \in {r6}})
      r8 == Only({IF Raised(x) THEN x
                  ELSE install_setter(x.fs, x.ctx, o.install) : x \in {r7}})
      r9 == Only({IF Raised(x) THEN x
                  ELSE isolate_install_setter(x.fs, x.ctx, o.isolate_install) : x \in {r8}})
      r10 == Only({IF Raised(x) THEN x
                   ELSE cmake_args_setter(x.fs, x.ctx, OrEmpty(o.cmake_args)) : x \in {r9}})
      r11 == Only({IF Raised(x) THEN x
                   ELSE make_args_setter(x.fs, x.ctx, OrEmpty(o.make_args)) : x \in {r10}})
      r12 == Only({IF Raised(x) THEN x
                   ELSE catkin_make_args_setter(x.fs, x.ctx, OrEmpty(o.catkin_make_args)) : x \in {r11}})
  IN Only({IF Raised(x) THEN x ELSE packages_setter(x.fs, x.ctx, <<>>) : x \in {r12}})

(* ------------------------------ summary -------------------------------- *)

\* A template is a sequence of pieces: a colour annotation (@{cf}, @|),
\* literal text, or a replacement field ({name}).
Color(n) == [kind |-> "color", s |-> n, t |-> <<>>]
Text(t) == [kind |-> "text", s |-> "", t |-> t]
Field(n) == [kind |-> "field", s |-> n, t |-> <<>>]

Esc == "ESC"
Ansi(code) == <<Esc, "[">> \o code \o <<"m">>

\* color.clr: colour annotations become ANSI escape sequences
clr(template) ==
  [i \in 1..Len(template) |->
     IF template[i].kind # "color" THEN template[i]
     ELSE Text(CASE template[i].s = "cf" -> Ansi(<<"3","6">>)
                 [] template[i].s = "yf" -> Ansi(<<"3","3">>)
                 [] template[i].s = "pf" -> Ansi(<<"3","5">>)
                 [] template[i].s = "|" -> Ansi(<<"0">>))]

\* str.format(**subs)
RECURSIVE format(_, _)
format(template, subs) ==
  IF template = <<>> THEN <<>>
  ELSE (IF template[1].kind = "field" THEN subs[template[1].s] ELSE template[1].t)
       \o format(Tail(template), subs)

\* common.remove_ansi_escape: deletes every match of \x1b[^m]*m
RECURSIVE NextM(_, _)
NextM(s, j) == IF j > Len(s) THEN 0 ELSE IF s[j] = "m" THEN j ELSE NextM(s, j + 1)

RECURSIVE remove_ansi_escape_from(_, _)
remove_ansi_escape_from(s, i) ==
  IF i > Len(s) THEN <<>>
  ELSE IF s[i] = Esc /\ NextM(s, i + 1) # 0 THEN remove_ansi_escape_from(s, NextM(s, i + 1) + 1)
  ELSE <<s[i]>> \o remove_ansi_escape_from(s, i + 1)

remove_ansi_escape(s) == remove_ansi_escape_from(s, 1)

Repeat(ch, n) == [k \in 1..n |-> ch]

\* One line of the summary table: "@{cf}<label>@|<padding>@{yf}{<key>}@|"
Line(label, pad, key) ==
  <<Color("cf"), Text(label), Color("|"), Text(Repeat(" ", pad)),
    Color("yf"), Field(key), Color("|")>>

SummaryTemplate ==
  << << Line(<<"W","o","r","k","s","p","a","c","e",":">>, 19, "_Context__workspace"),
        Line(<<"B","u","i","l","d","s","p","a","c","e",":">>, 18, "_Context__build_space"),
        Line(<<"D","e","v","e","l","s","p","a","c","e",":">>, 18, "_Context__devel_space"),
        Line(<<"I","n","s","t","a","l","l","s","p","a","c","e",":">>, 16, "_Context__install_space"),
        Line(<<"D","E","S","T","D","I","R",":">>, 21, "_Context__destdir") >>,
     << Line(<<"I","s","o","l","a","t","e"," ","D","e","v","e","l","s","p","a","c","e","s",":">>, 9, "_Context__isolate_devel"),
        Line(<<"I","n","s","t","a","l","l"," ","P","a","c","k","a","g","e","s",":">>, 12, "_Context__install"),
        Line(<<"I","s","o","l","a","t","e"," ","I","n","s","t","a","l","l","s",":">>, 12, "_Context__isolate_install") >>,
     << Line(<<"A","d","d","i","t","i","o","n","a","l"," ","C","M","a","k","e"," ","A","r","g","s",":">>, 7, "cmake_args"),
        Line(<<"A","d","d","i","t","i","o","n","a","l"," ","M","a","k","e"," ","A","r","g","s",":">>, 8, "make_args"),
        Line(<<"A","d","d","i","t","i","o","n","a","l"," ","c","a","t","k","i","n"," ","M","a","k","e"," ","A","r","g","s",":">>, 1, "catkin_make_args") >> >>

\* str() of a bool and of an optional string
StrBool(b) == IF b THEN S_True ELSE S_False
StrOpt(o) == IF o.isNone THEN S_None ELSE o.v

\* x or ['None']
OrNone(l) == IF l = <<>> THEN <<S_None>> ELSE l

\* The substitutions of summary(): the three joined argument lists, updated
\* with the instance's __dict__.
Subs(c) ==
  [k \in {"cmake_args", "make_args", "catkin_make_args", "_Context__workspace",
          "_Context__build_space", "_Context__devel_space", "_Context__install_space",
          "_Context__destdir", "_Context__isolate_devel", "_Context__install",
          "_Context__isolate_install"} |->
     CASE k = "cmake_args" -> StrJoin(S_CommaSpace, OrNone(c.cmake_args))
       [] k = "make_args" -> StrJoin(S_CommaSpace, OrNone(c.make_args))
       [] k = "catkin_make_args" -> StrJoin(S_CommaSpace, OrNone(c.catkin_make_args))
       [] k = "_Context__workspace" -> c.workspace
       [] k = "_Context__build_space" -> c.build_space
       [] k = "_Context__devel_space" -> c.devel_space
       [] k = "_Context__install_space" -> c.install_space
       [] k = "_Context__destdir" -> StrOpt(c.destdir)
       [] k = "_Context__isolate_devel" -> StrBool(c.isolate_devel)
       [] k = "_Context__install" -> StrBool(c.install)
       [] k = "_Context__isolate_install" -> StrBool(c.isolate_install)]

MaxOf(S) == CHOOSE m \in S : \A n \in S : n <= m

\* The rendered lines of the three groups.
RenderedGroups(c) ==
  [g \in 1..Len(SummaryTemplate) |->
     [i \in 1..Len(SummaryTemplate[g]) |-> format(clr(SummaryTemplate[g][i]), Subs(c))]]

\* length of a rendered line with its escape sequences
VisibleLen_with_escapes(line) == Len(line)

\* len(remove_ansi_escape(line)) of one rendered line
VisibleLen(line) == Len(remove_ansi_escape(line))

max_length(groups) ==
  MaxOf({0} \cup UNION {{VisibleLen(groups[g][i]) : i \in 1..Len(groups[g])} :
                         g \in 1..Len(groups)})

summary(c) ==
  LET rendered == RenderedGroups(c)
      groups == [g \in 1..Len(rendered) |-> StrJoin(S_Newline, rendered[g])]
      divider == format(clr(<<Color("pf"), Text(Repeat("-", max_length(rendered))),
                              Color("|")>>), <<>>)
  IN divider \o S_Newline \o StrJoin(S_Newline \o divider \o S_Newline, groups)
       \o S_Newline \o divider

(* ------------------------------ actions -------------------------------- *)

Init ==
  /\ fs \in Disks
  /\ environ \in DestdirValues
  /\ obj = "none"
  /\ ctx = Blank
  /\ last = [op |-> "", exc |-> "none"]
  /\ arg = <<>>
  /\ out = <<>>
  /\ nops = 0

\* Context(**a), called once: on an exception no object comes into being.
Construct ==
  \E a \in InitArgs :
    LET r == Context_init(fs, environ, a) IN
      /\ obj = "none"
      /\ last.op = ""
      /\ obj' = IF r.exc = "none" THEN "live" ELSE "none"
      /\ ctx' = IF r.exc = "none" THEN r.ctx ELSE Blank
      /\ last' = [op |-> "__init__", exc |-> r.exc]
      /\ arg' = a
      /\ out' = <<>>
      /\ nops' = 0
      /\ fs' = r.fs
      /\ UNCHANGED environ

\* context.<member> = value, the setter returning r
Assign(member, value, r) ==
  /\ obj = "live"
  /\ nops < MaxOps
  /\ ctx' = r.ctx
  /\ last' = [op |-> member, exc |-> r.exc]
  /\ arg' = value
  /\ out' = <<>>
  /\ nops' = nops + 1
  /\ fs' = r.fs
  /\ UNCHANGED <<environ, obj>>

Set_workspace ==
  \E v \in WorkspaceValues : Assign("workspace", v, workspace_setter(fs, ctx, v))
Set_source_space ==
  \E v \in SourceValues : Assign("source_space", v, source_space_setter(fs, ctx, v))
Set_build_space ==
  \E v \in SpaceValues : Assign("build_space", v, build_space_setter(fs, ctx, v))
Set_devel_space ==
  \E v \in SpaceValues : Assign("devel_space", v, devel_space_setter(fs, ctx, v))
Set_install_space ==
  \E v \in SpaceValues : Assign("install_space", v, install_space_setter(fs, ctx, v))
Set_destdir ==
  \E v \in DestdirValues : Assign("destdir", v, destdir_setter(fs, ctx, v))
Set_isolate_devel ==
  \E v \in BOOLEAN : Assign("isolate_devel", v, isolate_devel_setter(fs, ctx, v))
Set_install ==
  \E v \in BOOLEAN : Assign("install", v, install_setter(fs, ctx, v))
Set_isolate_install ==
  \E v \in BOOLEAN : Assign("isolate_install", v, isolate_install_setter(fs, ctx, v))
Set_cmake_args ==
  \E v \in ArgsValues : Assign("cmake_args", v, cmake_args_setter(fs, ctx, v))
Set_make_args ==
  \E v \in ArgsValues : Assign("make_args", v, make_args_setter(fs, ctx, v))
Set_catkin_make_args ==
  \E v \in ArgsValues : Assign("catkin_make_args", v, catkin_make_args_setter(fs, ctx, v))
Set_packages ==
  \E v \in PackagesValues : Assign("packages", v, packages_setter(fs, ctx, v))

\* context.summary()
Summarize ==
  /\ obj = "live"
  /\ nops < MaxOps
  /\ last' = [op |-> "summary", exc |-> "none"]
  /\ arg' = <<>>
  /\ out' = summary(ctx)
  /\ nops' = nops + 1
  /\ UNCHANGED <<fs, environ, obj, ctx>>

\* The assignments that validate nothing.
PlainAssignments ==
  \/ Set_build_space
  \/ Set_devel_space
  \/ Set_install_space
  \/ Set_destdir
  \/ Set_isolate_devel
  \/ Set_install
  \/ Set_isolate_install
  \/ Set_cmake_args
  \/ Set_make_args
  \/ Set_catkin_make_args
  \/ Set_packages

\* The calls a client makes on a Context it holds.
Calls ==
  \/ Set_workspace
  \/ Set_source_space
  \/ PlainAssignments
  \/ Summarize

Next == Construct \/ Calls

\* The operations of the Context class.
Spec == Init /\ [][Next]_vars

\* The same, with a client that goes on assigning to the members of a
\* Context it holds while it may.
FairSpec == Spec /\ WF_vars(PlainAssignments)

\* Finalization: the lock flag is raised.  No statement of context.py does
\* this; the step is the "lock" of the specified construct-then-lock
\* lifecycle.
Lock ==
  /\ obj = "live"
  /\ ~ctx.locked
  /\ ctx' = [ctx EXCEPT !.locked = TRUE]
  /\ last' = [op |-> "lock", exc |-> "none"]
  /\ arg' = <<>>
  /\ out' = <<>>
  /\ UNCHANGED <<fs, environ, obj, nops>>

NextLocked == Next \/ Lock

\* The operations of the Context class and finalization.
SpecLocked == Init /\ [][NextLocked]_vars

(* ------------------------------ properties ----------------------------- *)

\* The step just taken called the constructor / assigned to a member.
Constructed == last.op = "__init__" /\ last.exc = "none"
Assigned(m) == last.op = m /\ last.exc = "none"

\* "<dir>/<name>"
Under(dir, name) == dir \o <<Sep>> \o name

\* The arguments of the constructor call, with the documented defaults.
GivenWorkspace(a) == IF a.workspace.isNone THEN Dot ELSE a.workspace.v
GivenSuffix(a) == IF a.space_suffix.isNone THEN <<>> ELSE a.space_suffix.v
GivenSource(a) ==
  IF a.source_space.isNone THEN Under(Abspath(GivenWorkspace(a)), S_src)
  ELSE a.source_space.v

\* C1: in a locked Context an assignment to any settable member raises
\* RuntimeError, whatever the value (a non-existent path included), and every
\* member keeps its value.
C1_LockedAssignmentFails ==
  [][(ctx.locked /\ last'.op \in Members)
       => (last'.exc = "RuntimeError" /\ ctx' = ctx)]_vars

\* C1 witness: a locked Context refused a workspace that does not exist.
C1_Witness ==
  /\ ctx.locked
  /\ last.op = "workspace"
  /\ last.exc = "RuntimeError"
  /\ ~Exists(fs, arg)

C2_NeverLocked == ~ctx.locked

\* C3: on an unlocked Context, assigning to workspace or source_space a path
\* that does not exist raises ValueError and changes no member; assigning a
\* path that exists succeeds and stores its absolute form.
C3_MissingPathFails ==
  [][(~ctx.locked /\ last'.op \in {"workspace", "source_space"})
       => IF Exists(fs, arg')
            THEN last'.exc = "none" /\ ctx'[last'.op] = Abspath(arg')
            ELSE last'.exc = "ValueError" /\ ctx' = ctx]_vars

\* C3 witness: an unlocked Context refused a source space that does not exist.
C3_Witness ==
  /\ obj = "live"
  /\ ~ctx.locked
  /\ last.op = "source_space"
  /\ last.exc = "ValueError"
  /\ ~Exists(fs, arg)

\* C4: after a successful construction workspace is the absolute path of the
\* given workspace ('.' by default), source_space the absolute path of the
\* given source space or <absolute workspace>/src, and each of build, devel
\* and install space the given value, or <absolute workspace>/build, /devel,
\* /install with the suffix appended.
C4_Defaults ==
  Constructed =>
    LET ws == Abspath(GivenWorkspace(arg))
        ss == GivenSuffix(arg)
    IN /\ ctx.workspace = ws
       /\ ctx.source_space = IF arg.source_space.isNone THEN Under(ws, S_src)
                             ELSE Abspath(arg.source_space.v)
       /\ ctx.build_space = IF arg.build_space.isNone THEN Under(ws, S_build) \o ss
                            ELSE arg.build_space.v
       /\ ctx.devel_space = IF arg.devel_space.isNone THEN Under(ws, S_devel) \o ss
                            ELSE arg.devel_space.v
       /\ ctx.install_space = IF arg.install_space.isNone THEN Under(ws, S_install) \o ss
                              ELSE arg.install_space.v

\* C4 witness: constructed from a relative workspace, with a suffix, a
\* defaulted source and build space and an explicit devel space.
C4_Witness ==
  /\ Constructed
  /\ arg.workspace = Some(P_up_o)
  /\ arg.source_space.isNone
  /\ arg.build_space.isNone
  /\ ~arg.devel_space.isNone
  /\ ~arg.space_suffix.isNone

\* C5: construction raises ValueError exactly when the workspace (given, or
\* '.') or the source space (given, or <workspace>/src) does not exist;
\* otherwise it yields an unlocked Context, whether or not the build, devel
\* and install spaces exist.
C5_ConstructionValidates ==
  last.op = "__init__" =>
    LET bothExist == Exists(fs, GivenWorkspace(arg)) /\ Exists(fs, GivenSource(arg))
    IN IF bothExist THEN last.exc = "none" /\ obj = "live" /\ ~ctx.locked
       ELSE last.exc = "ValueError" /\ obj = "none"

\* C5 witness: the workspace exists, its default source space does not, and
\* construction has raised.
C5_Witness ==
  /\ last.op = "__init__"
  /\ last.exc = "ValueError"
  /\ arg.source_space.isNone
  /\ Exists(fs, GivenWorkspace(arg))

\* A second case of C5: constructed although no space of the three exists.
C5_SpacesMissing ==
  /\ Constructed
  /\ ~Exists(fs, ctx.build_space)
  /\ ~Exists(fs, ctx.devel_space)
  /\ ~Exists(fs, ctx.install_space)

\* C6: no constructor call, assignment or summary() call changes the set of
\* paths that exist on disk.
C6_DiskUntouched == [][fs' = fs]_vars

\* C6 witness: a build space that does not exist was assigned and stored.
C6_Witness ==
  /\ Assigned("build_space")
  /\ ctx.build_space = arg
  /\ ~Exists(fs, arg)

\* C7: with an existing source space 'source packages' and the space suffix
\* '_with a space' construction succeeds, the source space is stored in
\* absolute form with its whitespace, and the derived spaces carry the suffix.
C7_WhitespaceAccepted ==
  (/\ last.op = "__init__"
   /\ arg.source_space = Some(P_source_packages)
   /\ arg.space_suffix = Some(S_with_a_space)
   /\ Exists(fs, GivenWorkspace(arg)))
  => /\ last.exc = "none"
     /\ ctx.source_space = <<"/","w","/","s","o","u","r","c","e"," ","p","a","c","k","a","g","e","s">>
     /\ arg.build_space.isNone =>
          ctx.build_space = ctx.workspace \o <<"/","b","u","i","l","d","_","w","i","t","h"," ","a"," ","s","p","a","c","e">>
     /\ arg.devel_space.isNone =>
          ctx.devel_space = ctx.workspace \o <<"/","d","e","v","e","l","_","w","i","t","h"," ","a"," ","s","p","a","c","e">>
     /\ arg.install_space.isNone =>
          ctx.install_space = ctx.workspace \o <<"/","i","n","s","t","a","l","l","_","w","i","t","h"," ","a"," ","s","p","a","c","e">>

\* C7 witness: constructed with whitespace in the source space and in the
\* suffix, all three spaces derived.
C7_Witness ==
  /\ Constructed
  /\ arg.source_space = Some(P_source_packages)
  /\ arg.space_suffix = Some(S_with_a_space)
  /\ arg.build_space.isNone /\ arg.devel_space.isNone /\ arg.install_space.isNone

\* C8: a successful assignment to one member changes that member only; the
\* other members and the lock flag keep their values.
C8_OnlyAssignedMemberChanges ==
  [][(last'.op \in Members /\ last'.exc = "none")
       => \A m \in DOMAIN ctx \ {last'.op} : ctx'[m] = ctx[m]]_vars

\* C8 witness: workspace was reassigned, the spaces still derive from the
\* workspace given at construction.
C8_Witness ==
  /\ Assigned("workspace")
  /\ ctx.workspace = P_o
  /\ ctx.source_space = Under(Cwd, S_src)
  /\ ctx.build_space = Under(Cwd, S_build)

\* C9: workspace and source_space are always absolute paths that exist, each
\* the absolute form of the path assigned; build, devel and install space are
\* stored as assigned.
C9_StoredPaths ==
  /\ [](obj = "live" =>
          /\ IsAbs(ctx.workspace) /\ Exists(fs, ctx.workspace)
          /\ IsAbs(ctx.source_space) /\ Exists(fs, ctx.source_space))
  /\ [][(last'.op \in {"workspace", "source_space"} /\ last'.exc = "none")
          => (Exists(fs, arg') /\ ctx'[last'.op] = Abspath(arg'))]_vars
  /\ [][(last'.op \in {"build_space", "devel_space", "install_space"} /\ last'.exc = "none")
          => ctx'[last'.op] = arg']_vars

\* C9 witness: a relative source space is stored in absolute form, next to a
\* build space that was given as a relative path and is stored so.
C9_Witness ==
  /\ Assigned("source_space")
  /\ ~IsAbs(arg)
  /\ ctx.source_space = Under(Cwd, arg)
  /\ ctx.build_space = P_bld

\* The lines of the last summary() and what is visible of them.
SummaryLines == Split(out, "\n")
Visible(i) == remove_ansi_escape(SummaryLines[i])
DividerLines == {1, 7, 11, 15}
BodyLines == (1..15) \ DividerLines

\* The text of a table line: label, padding, value.
Labelled(g, i, value) ==
  SummaryTemplate[g][i][2].t \o SummaryTemplate[g][i][4].t \o value

\* An argument list as the summary shows it.
ShownArgs(l) == IF l = <<>> THEN <<"N","o","n","e">> ELSE StrJoin(<<",", " ">>, l)
ShownBool(b) == IF b THEN <<"T","r","u","e">> ELSE <<"F","a","l","s","e">>

\* C10: summary() works locked and unlocked and changes no member; it returns
\* 5 path lines, 3 option lines and 3 argument lines in that order, with a
\* divider before, between and after the groups, each divider as many dashes
\* long as the longest line has visible characters; an empty argument list
\* reads 'None', another one its items joined by ', '.
C10_Summary ==
  /\ [][last'.op = "summary" => (last'.exc = "none" /\ ctx' = ctx)]_vars
  /\ [](last.op = "summary" =>
          /\ Len(SummaryLines) = 15
          /\ \A d \in DividerLines :
               Visible(d) = Repeat("-", MaxOf({Len(Visible(b)) : b \in BodyLines}))
          /\ Visible(2) = Labelled(1, 1, ctx.workspace)
          /\ Visible(3) = Labelled(1, 2, ctx.build_space)
          /\ Visible(4) = Labelled(1, 3, ctx.devel_space)
          /\ Visible(5) = Labelled(1, 4, ctx.install_space)
          /\ Visible(6) = Labelled(1, 5, IF ctx.destdir.isNone THEN <<"N","o","n","e">>
                                          ELSE ctx.destdir.v)
          /\ Visible(8) = Labelled(2, 1, ShownBool(ctx.isolate_devel))
          /\ Visible(9) = Labelled(2, 2, ShownBool(ctx.install))
          /\ Visible(10) = Labelled(2, 3, ShownBool(ctx.isolate_install))
          /\ Visible(12) = Labelled(3, 1, ShownArgs(ctx.cmake_args))
          /\ Visible(13) = Labelled(3, 2, ShownArgs(ctx.make_args))
          /\ Visible(14) = Labelled(3, 3, ShownArgs(ctx.catkin_make_args)))

\* C10 witness: summary() of a locked Context with an empty and a two-item
\* argument list.
C10_Witness ==
  /\ ctx.locked
  /\ last.op = "summary"
  /\ out # <<>>
  /\ ctx.catkin_make_args = <<>>
  /\ Len(ctx.cmake_args) = 2

====
